---------------------------- MODULE Spec2Model ----------------------------
(***************************************************************************)
(* The process-table builder of the ps command (u-root): LoadTable walks   *)
(* /proc with filepath.Walk, fetches every numeric-named entry with        *)
(* Process.Parse -> process.readStat, and appends the decoded entries to   *)
(* the table.  Strings are TLA+ strings (TLC evaluates Len, \o and SubSeq  *)
(* on them); a Go error value is its message, the nil error is Nil.        *)
(***************************************************************************)
EXTENDS Integers, Sequences, FiniteSets, TLC

VARIABLES
    fs,         \* the /proc namespace: child name -> [kind, stat, fd0, cmdline]
    flagsX,     \* flags.x, the long-command option
    pc,         \* position inside LoadTable
    names,      \* the root's listing, as filepath.Walk read it
    idx,        \* index in names of the next child the walk visits
    table,      \* pT.table
    maxwidth,   \* pT.maxwidth
    err,        \* the error returned by filepath.Walk
    ret,        \* the value LoadTable returned
    panicMsg,   \* the panic that ended the program, if any
    log,        \* what log.Printf / log.Print wrote
    io,         \* the paths under /proc opened or resolved by the fetches
    rootOK,     \* whether the listing of /proc succeeded
    walkMasks,  \* whether this build's filepath.Walk turns SkipDir into nil
    termOK      \* whether the TIOCGWINSZ ioctl succeeded

vars == <<fs, flagsX, pc, names, idx, table, maxwidth, err, ret, panicMsg,
          log, io, rootOK, walkMasks, termOK>>

-----------------------------------------------------------------------------
(* Constants of the program *)

proc == "/proc"

USER_HZ == 100

\* The width of Go's int on the 32-bit ports (386, arm); on the 64-bit ports
\* the same clamping and wrapping happen at 2^63 - 1.
MaxInt == 2147483647

Nil == "<nil>"

SkipDir == "skip this directory"

\* The fields of struct process, in declaration order (reflection indexes them).
FieldNames ==
    << "Pid", "Cmd", "State", "Ppid", "Pgrp", "Sid", "TTYNr", "TTYPgrp",
       "Flags", "MinFlt", "CminFlt", "MajFlt", "CmajFlt", "Utime", "Stime",
       "Cutime", "Cstime", "Priority", "Nice", "NumThreads", "ItRealValue",
       "StartTime", "Vsize", "Rss", "Rsslim", "StartCode", "EndCode",
       "StartStack", "Esp", "Eip", "Pending", "Blocked", "Sigign", "Sigcatch",
       "Wchan", "Zero1", "Zero2", "ExitSignal", "TaskCpu", "RtPriority",
       "Policy", "BlkioTicks", "Gtime", "Cgtime", "StartData", "EndData",
       "StartBrk", "ArgStart", "ArgEnd", "EnvStart", "EnvEnd", "ExitCode",
       "Ctty", "Time" >>

\* v.NumField(): every field of the struct, the two derived ones included.
NumField == Len(FieldNames)

\* The fields a stat record carries: Pid .. ExitCode.
NumStatFields == NumField - 2

FieldSet == {FieldNames[i] : i \in 1..NumField}

FieldIndex(f) == CHOOSE i \in 1..NumField : FieldNames[i] = f

\* &Process{}: every field the empty string.
ZeroProcess == [f \in FieldSet |-> ""]

-----------------------------------------------------------------------------
(* Library functions, as far as the program uses them *)

Digits == {"0", "1", "2", "3", "4", "5", "6", "7", "8", "9"}

CharAt(s, i) == SubSeq(s, i, i)

\* regexp "^[0-9]+$" matched against a whole name.
MatchAllProc(name) ==
    /\ Len(name) >= 1
    /\ \A i \in 1..Len(name) : CharAt(name, i) \in Digits

\* strings.Index(s[i:], " ") as a position in s: that of the first space at
\* or after i, or Len(s) + 1 when there is none.
NextSpace(s, i) ==
    CHOOSE j \in i..(Len(s) + 1) :
        /\ j = Len(s) + 1 \/ CharAt(s, j) = " "
        /\ \A k \in i..(j - 1) : CharAt(s, k) # " "

RECURSIVE SplitFrom(_, _)
SplitFrom(s, i) ==
    LET j == NextSpace(s, i)
    IN IF j > Len(s) THEN << SubSeq(s, i, Len(s)) >>
       ELSE << SubSeq(s, i, j - 1) >> \o SplitFrom(s, j + 1)

\* strings.Split(s, " "): one token more than there are spaces.
Split(s) == SplitFrom(s, 1)

DigitVal(c) ==
    CASE c = "0" -> 0 [] c = "1" -> 1 [] c = "2" -> 2 [] c = "3" -> 3
      [] c = "4" -> 4 [] c = "5" -> 5 [] c = "6" -> 6 [] c = "7" -> 7
      [] c = "8" -> 8 [] c = "9" -> 9

\* strconv.ParseUint(s, 10, 32), scanning left to right: a non-digit is a
\* syntax error, a value above 2^32 - 1 a range error, whichever comes first.
\* The value is kept as hi * 100000 + lo so that it never leaves TLC's
\* integers; 2^32 - 1 = 42949 * 100000 + 67295.
RECURSIVE ParseUint(_, _, _, _)
ParseUint(s, i, hi, lo) ==
    IF i > Len(s) THEN [e |-> "", hi |-> hi, lo |-> lo]
    ELSE IF CharAt(s, i) \notin Digits THEN [e |-> "syntax", hi |-> 0, lo |-> 0]
    ELSE LET t == lo * 10 + DigitVal(CharAt(s, i))
             lo1 == t % 100000
             hi1 == hi * 10 + (t \div 100000)
         IN IF hi1 > 42949 \/ (hi1 = 42949 /\ lo1 > 67295)
            THEN [e |-> "range", hi |-> 42949, lo |-> 67295]
            ELSE ParseUint(s, i + 1, hi1, lo1)

\* Atoi as it would be if every parse error, a range error included, left 0.
Atoi_RangeErrorIsZero(s) ==
    LET neg == Len(s) >= 1 /\ CharAt(s, 1) = "-"
        signed == Len(s) >= 1 /\ CharAt(s, 1) \in {"+", "-"}
        body == IF signed THEN SubSeq(s, 2, Len(s)) ELSE s
        u == ParseUint(body, 1, 0, 0)
        big == u.hi > 21474 \/ (u.hi = 21474 /\ u.lo > 83647)
    IN IF Len(body) = 0 \/ u.e = "syntax" \/ big THEN 0
       ELSE IF neg THEN -(u.hi * 100000 + u.lo)
       ELSE u.hi * 100000 + u.lo

\* strconv.Atoi with its error dropped (utime, _ := strconv.Atoi(...)): a
\* syntax error leaves 0, a range error leaves the nearest bound of int.
Atoi(s) ==
    LET neg == Len(s) >= 1 /\ CharAt(s, 1) = "-"
        signed == Len(s) >= 1 /\ CharAt(s, 1) \in {"+", "-"}
        body == IF signed THEN SubSeq(s, 2, Len(s)) ELSE s
        u == ParseUint(body, 1, 0, 0)
        big == u.hi > 21474 \/ (u.hi = 21474 /\ u.lo > 83647)
    IN IF Len(body) = 0 \/ u.e = "syntax" THEN 0
       ELSE IF big THEN (IF neg THEN (-MaxInt) - 1 ELSE MaxInt)
       ELSE IF neg THEN -(u.hi * 100000 + u.lo)
       ELSE u.hi * 100000 + u.lo

\* a + b on int: the sum wraps around.
AddInt(a, b) ==
    IF a > 0 /\ b > 0 /\ a > MaxInt - b
    THEN (a - MaxInt - 1) + (b - MaxInt - 1)
    ELSE IF a < 0 /\ b < 0 /\ a < ((-MaxInt) - 1) - b
    THEN (a + MaxInt + 1) + (b + MaxInt + 1)
    ELSE a + b

\* Go's / and % truncate toward zero.
GoDiv(a, b) == IF a >= 0 THEN a \div b ELSE -((-a) \div b)

GoMod(a, b) == a - b * GoDiv(a, b)

\* fmt's %02d: at least two characters, a sign counting as one.
Fmt02d(n) == IF n >= 0 /\ n < 10 THEN "0" \o ToString(n) ELSE ToString(n)

\* path.Join(proc, pid, file)
ProcPath(pid, file) == proc \o "/" \o pid \o "/" \o file

NoFile == [ok |-> FALSE, data |-> ""]

File(d) == [ok |-> TRUE, data |-> d]

\* ioutil.ReadFile / os.Readlink of /proc/<pid>/<file>: there is something to
\* read only under a child of /proc that is a directory.
Lookup(pid, file) ==
    IF pid \in DOMAIN fs /\ fs[pid].kind = "dir" THEN fs[pid][file] ELSE NoFile

OpenError(pid, file) ==
    "open " \o ProcPath(pid, file) \o ": no such file or directory"

-----------------------------------------------------------------------------
(* The per-process fetch *)

\* getTime as it would be if it formatted the ticks without dividing by USER_HZ.
getTime_TicksAsSeconds(p) ==
    LET tsecs == AddInt(Atoi(p.Utime), Atoi(p.Stime))
    IN Fmt02d(GoDiv(tsecs, 3600)) \o ":" \o Fmt02d(GoMod(GoDiv(tsecs, 60), 60))
           \o ":" \o Fmt02d(GoMod(tsecs, 60))

\* process.getTime
getTime(p) ==
    LET utime == Atoi(p.Utime)
        stime == Atoi(p.Stime)
        jiffies == AddInt(utime, stime)
        tsecs == GoDiv(jiffies, USER_HZ)
        secs == GoMod(tsecs, 60)
        mins == GoMod(GoDiv(tsecs, 60), 60)
        hrs == GoDiv(tsecs, 3600)
    IN Fmt02d(hrs) \o ":" \o Fmt02d(mins) \o ":" \o Fmt02d(secs)

\* getCtty as it would be with len(tty) >= 5 in place of len(tty) > 5.
getCtty_StripsBarePrefix(p) ==
    LET link == Lookup(p.Pid, "fd0")
        tty == link.data
    IN IF ~link.ok THEN "?"
       ELSE IF p.TTYPgrp # "-1"
       THEN (IF Len(tty) >= 5 /\ SubSeq(tty, 1, 5) = "/dev/"
             THEN SubSeq(tty, 6, Len(tty))
             ELSE tty)
       ELSE "?"

\* process.getCtty
getCtty(p) ==
    LET link == Lookup(p.Pid, "fd0")
        tty == link.data
    IN IF ~link.ok THEN "?"
       ELSE IF p.TTYPgrp # "-1"
       THEN (IF Len(tty) > 5 /\ SubSeq(tty, 1, 5) = "/dev/"
             THEN SubSeq(tty, 6, Len(tty))
             ELSE tty)
       ELSE "?"

\* process.longCmdLine: (string, error)
longCmdLine(p) ==
    LET b == Lookup(p.Pid, "cmdline")
    IN IF ~b.ok THEN [s |-> "", e |-> OpenError(p.Pid, "cmdline")]
       ELSE [s |-> b.data, e |-> Nil]

\* The reflection loop of readStat: field i takes token i, for every token.
SetFields(fields) ==
    [f \in FieldSet |->
        IF FieldIndex(f) <= Len(fields) THEN fields[FieldIndex(f)] ELSE ""]

\* What a call of readStat comes to: outcome is "ok" (nil returned), "error"
\* (e returned) or "panic" (e is the panic); p is the struct it leaves and io
\* lists the paths it opened or resolved.
Result(outcome, e, p, paths) ==
    [outcome |-> outcome, e |-> e, p |-> p, io |-> paths]

\* readLong as it would be if a failed read of the argument vector kept the
\* short name.
readLong_KeepsShortNameOnError(p, paths) ==
    LET long == longCmdLine(p)
        longIO == paths \o << ProcPath(p.Pid, "cmdline") >>
    IN IF ~flagsX THEN Result("ok", Nil, p, paths)
       ELSE IF long.e = Nil /\ long.s # ""
       THEN Result("ok", Nil, [p EXCEPT !.Cmd = long.s], longIO)
       ELSE Result("ok", Nil, p, longIO)

\* readStat from `if flags.x` on.
readLong(p, paths) ==
    LET long == longCmdLine(p)
        longIO == paths \o << ProcPath(p.Pid, "cmdline") >>
    IN IF ~flagsX THEN Result("ok", Nil, p, paths)
       ELSE IF long.e # Nil THEN Result("error", long.e, p, longIO)
       ELSE IF long.s # "" THEN Result("ok", Nil, [p EXCEPT !.Cmd = long.s], longIO)
       ELSE Result("ok", Nil, p, longIO)

\* readCmd as it would be if it removed the first character only.
readCmd_KeepsLastCharacter(p, paths) ==
    IF Len(p.Cmd) < 2
    THEN Result("panic", "runtime error: slice bounds out of range", p, paths)
    ELSE readLong([p EXCEPT !.Cmd = SubSeq(p.Cmd, 2, Len(p.Cmd))], paths)

\* p.Cmd = cmd[1 : len(cmd)-1]: a slice expression that panics on a cmd
\* shorter than two characters.
readCmd(p, paths) ==
    IF Len(p.Cmd) < 2
    THEN Result("panic", "runtime error: slice bounds out of range", p, paths)
    ELSE readLong([p EXCEPT !.Cmd = SubSeq(p.Cmd, 2, Len(p.Cmd) - 1)], paths)

\* p.Time = p.getTime(); p.Ctty = p.getCtty()
readDerived(p, paths) ==
    LET timed == [p EXCEPT !.Time = getTime(p)]
    IN readCmd([timed EXCEPT !.Ctty = getCtty(timed)],
               paths \o << ProcPath(p.Pid, "fd/0") >>)

\* The reflection loop: v.Field(i) panics on an index the struct has no field
\* for.
readFields(fields, paths) ==
    IF Len(fields) > NumField
    THEN Result("panic", "reflect: Field index out of range", ZeroProcess, paths)
    ELSE readDerived(SetFields(fields), paths)

\* process.readStat
readStat(pid) ==
    LET b == Lookup(pid, "stat")
        paths == << ProcPath(pid, "stat") >>
    IN IF ~b.ok THEN Result("error", OpenError(pid, "stat"), ZeroProcess, paths)
       ELSE readFields(Split(b.data), paths)

\* Process.Parse
Parse(pid) == readStat(pid)

-----------------------------------------------------------------------------
(* LoadTable *)

\* The names a child of /proc can have here, in the byte order in which
\* filepath.Walk's readDirNames sorts a listing.
NameOrder == << "+x", "1", "42", "7x", "abc" >>

AllNames == {NameOrder[i] : i \in 1..Len(NameOrder)}

\* readDirNames(proc): the children's names, sorted.
Listing == SelectSeq(NameOrder, LAMBDA n : n \in DOMAIN fs)

LstatError(name) ==
    "lstat " \o proc \o "/" \o name \o ": no such file or directory"

ListError == "open " \o proc \o ": permission denied"

\* ws.Col as the ioctl reports it.
Columns == 80

\* The walk function's call on /proc itself: the listing's error, if any, is
\* logged and returned; otherwise name == proc returns nil.
WalkRoot ==
    /\ pc = "start"
    /\ \E ok \in BOOLEAN :
        /\ rootOK' = ok
        /\ IF ok
           THEN /\ names' = Listing
                /\ idx' = 1
                /\ pc' = "walking"
                /\ UNCHANGED <<err, log>>
           ELSE /\ log' = Append(log, proc \o ": " \o ListError)
                /\ err' = ListError
                /\ pc' = "walked"
                /\ UNCHANGED <<names, idx>>
    /\ UNCHANGED <<fs, flagsX, table, maxwidth, ret, panicMsg, io,
                   walkMasks, termOK>>

\* One child of /proc: walk lstats it and calls the walk function.  An lstat
\* error is handed to the function, which logs and returns it.  Otherwise a
\* numeric name is fetched and appended (a fetch error is logged and
\* returned), and the function returns SkipDir.  walk goes on to the next
\* child only after SkipDir from a directory: SkipDir from a plain file skips
\* the rest of /proc, and any other error ends the walk.  (A child directory
\* is never descended into; a name that cannot be examined is "vanished".)
VisitChild ==
    /\ pc = "walking"
    /\ idx <= Len(names)
    /\ LET name == names[idx]
           kind == fs[name].kind
           r == Parse(name)
       IN IF kind = "vanished"
          THEN /\ log' = Append(log, proc \o "/" \o name \o ": " \o LstatError(name))
               /\ err' = LstatError(name)
               /\ pc' = "walked"
               /\ UNCHANGED <<idx, table, panicMsg, io>>
          ELSE IF ~MatchAllProc(name)
          THEN /\ IF kind = "dir"
                  THEN idx' = idx + 1 /\ UNCHANGED <<pc, err>>
                  ELSE pc' = "walked" /\ err' = SkipDir /\ UNCHANGED idx
               /\ UNCHANGED <<table, panicMsg, io, log>>
          ELSE /\ io' = io \o r.io
               /\ CASE r.outcome = "panic" ->
                        /\ pc' = "panicked"
                        /\ panicMsg' = r.e
                        /\ UNCHANGED <<idx, table, err, log>>
                    [] r.outcome = "error" ->
                        /\ log' = Append(log, r.e)
                        /\ err' = r.e
                        /\ pc' = "walked"
                        /\ UNCHANGED <<idx, table, panicMsg>>
                    [] r.outcome = "ok" ->
                        /\ table' = Append(table, r.p)
                        /\ IF kind = "dir"
                           THEN idx' = idx + 1 /\ UNCHANGED <<pc, err>>
                           ELSE pc' = "walked" /\ err' = SkipDir /\ UNCHANGED idx
                        /\ UNCHANGED <<panicMsg, log>>
    /\ UNCHANGED <<fs, flagsX, names, maxwidth, ret, rootOK, walkMasks, termOK>>

\* walk has visited every child: it returns nil.
WalkEnd ==
    /\ pc = "walking"
    /\ idx > Len(names)
    /\ pc' = "walked"
    /\ err' = Nil
    /\ UNCHANGED <<fs, flagsX, names, idx, table, maxwidth, ret, panicMsg,
                   log, io, rootOK, walkMasks, termOK>>

\* filepath.Walk returns what walk returned; the releases of Go that mask
\* SkipDir return nil in its place.
WalkReturn ==
    /\ pc = "walked"
    /\ err' = IF walkMasks /\ err = SkipDir THEN Nil ELSE err
    /\ pc' = "returned"
    /\ UNCHANGED <<fs, flagsX, names, idx, table, maxwidth, ret, panicMsg,
                   log, io, rootOK, walkMasks, termOK>>

\* terminalSize: panics when the ioctl fails; LoadTable stores the columns.
TerminalSize ==
    /\ pc = "returned"
    /\ \E ok \in BOOLEAN :
        /\ termOK' = ok
        /\ IF ok
           THEN /\ maxwidth' = Columns
                /\ pc' = "sized"
                /\ UNCHANGED panicMsg
           ELSE /\ pc' = "panicked"
                /\ panicMsg' = "inappropriate ioctl for device"
                /\ UNCHANGED maxwidth
    /\ UNCHANGED <<fs, flagsX, names, idx, table, err, ret, log, io,
                   rootOK, walkMasks>>

\* The end of LoadTable: err.Error() is called on whatever Walk returned, the
\* nil error included.
Return ==
    /\ pc = "sized"
    /\ IF err = Nil
       THEN /\ pc' = "panicked"
            /\ panicMsg' = "runtime error: invalid memory address or nil pointer dereference"
            /\ UNCHANGED ret
       ELSE /\ pc' = "done"
            /\ ret' = IF err = "skip this directory" THEN Nil ELSE err
            /\ UNCHANGED panicMsg
    /\ UNCHANGED <<fs, flagsX, names, idx, table, maxwidth, err, log, io,
                   rootOK, walkMasks, termOK>>

Next == WalkRoot \/ VisitChild \/ WalkEnd \/ WalkReturn \/ TerminalSize \/ Return

-----------------------------------------------------------------------------
(* The namespaces LoadTable is run on *)

\* Bounds of the model.
MaxChildren == 3

MaxShort == 3

MaxExtra == 1

RECURSIVE Join(_)
Join(toks) ==
    IF Len(toks) = 0 THEN ""
    ELSE IF Len(toks) = 1 THEN toks[1]
    ELSE toks[1] \o " " \o Join(Tail(toks))

\* Token i of a stat record as the kernel prints it for process pid: the
\* tokens the fetch interprets are given, every other one is a number that
\* tells its position.
StatToken(i, pid, cmd, ttypgrp, utime, stime) ==
    CASE i = 1 -> pid
      [] i = 2 -> cmd
      [] i = 3 -> "S"
      [] i = 8 -> ttypgrp
      [] i = 14 -> utime
      [] i = 15 -> stime
      [] OTHER -> ToString(100 + i)

\* The content of /proc/<pid>/stat with n tokens printed: one line.
StatLine(n, pid, cmd, ttypgrp, utime, stime) ==
    Join([i \in 1..n |-> StatToken(i, pid, cmd, ttypgrp, utime, stime)]) \o "\n"

ProcDir(stat, fd0, cmdline) ==
    [kind |-> "dir", stat |-> stat, fd0 |-> fd0, cmdline |-> cmdline]

\* What a child of /proc can be: a live process, a process that exited after
\* the listing (its files are gone), a process whose argument vector cannot
\* be read, a directory that is no process, a plain file, or a name that is
\* gone by the time walk lstats it.
Child(name, what) ==
    CASE what = "process" ->
            ProcDir(File(StatLine(NumStatFields, name, "(sh)", "34", "150", "50")),
                    File("/dev/pts/0"), File("sh -c x"))
      [] what = "exited" -> ProcDir(NoFile, NoFile, NoFile)
      [] what = "nocmdline" ->
            ProcDir(File(StatLine(NumStatFields, name, "(sh)", "34", "150", "50")),
                    File("/dev/pts/0"), NoFile)
      [] what = "dir" -> ProcDir(NoFile, NoFile, NoFile)
      [] what = "file" ->
            [kind |-> "file", stat |-> NoFile, fd0 |-> NoFile, cmdline |-> NoFile]
      [] what = "vanished" ->
            [kind |-> "vanished", stat |-> NoFile, fd0 |-> NoFile, cmdline |-> NoFile]

Kinds(name) ==
    IF MatchAllProc(name)
    THEN {"process", "exited", "nocmdline", "file", "vanished"}
    ELSE {"dir", "file", "vanished"}

\* /proc with at most MaxChildren children of any kind, in any mix.
Roots ==
    UNION { { [n \in S |-> Child(n, c[n])] :
                c \in {d \in [S -> {"process", "exited", "nocmdline", "dir",
                                    "file", "vanished"}] :
                          \A n \in S : d[n] \in Kinds(n)} } :
            S \in {T \in SUBSET AllNames : Cardinality(T) <= MaxChildren} }

\* Numbers of tokens a stat record is printed with: too few, one short, the
\* schema's count, and more.
TokenCounts ==
    (1..MaxShort) \cup {NumStatFields - 1, NumStatFields}
        \cup ((NumStatFields + 1)..(NumField + MaxExtra))

CmdTokens == {"(sh)", "(a(b)c)", "()", "(my prog)"}

CmdLines == {NoFile, File(""), File("sh -c x")}

UtimeTexts ==
    {"0", "150", "359", "35900", "360000", "36000000", "x", "",
     "9223372036854775808"}

StimeTexts == {"0", "50", "y", "2147483647"}

TTYPgrpTexts == {"-1", "34"}

Links ==
    {NoFile, File("/dev/pts/0"), File("/dev/x"), File("/dev/"),
     File("/dev//dev/x"), File("/dev"), File("pipe:[5]")}

\* /proc with the single process 1, whose files vary: the shape of its stat
\* record and its argument vector, or its tick counters, or its terminal.
SingleProcessRoots ==
    LET one(stat, fd0, cmdline) == [n \in {"1"} |-> ProcDir(stat, fd0, cmdline)]
    IN { one(File(StatLine(n, "1", cmd, "34", "150", "50")), File("/dev/pts/0"), c) :
            n \in TokenCounts, cmd \in CmdTokens, c \in CmdLines }
       \cup
       { one(File(StatLine(NumStatFields, "1", "(sh)", "34", u, s)),
             File("/dev/pts/0"), File("")) :
            u \in UtimeTexts, s \in StimeTexts }
       \cup
       { one(File(StatLine(NumStatFields, "1", "(sh)", t, "150", "50")), l, File("")) :
            t \in TTYPgrpTexts, l \in Links }

Init ==
    /\ fs \in Roots \cup SingleProcessRoots
    /\ flagsX \in BOOLEAN
    /\ walkMasks \in BOOLEAN
    /\ pc = "start"
    /\ names = << >>
    /\ idx = 0
    /\ table = << >>
    /\ maxwidth = 0
    /\ err = Nil
    /\ ret = Nil
    /\ panicMsg = ""
    /\ log = << >>
    /\ io = << >>
    /\ rootOK = TRUE
    /\ termOK = TRUE

Spec == Init /\ [][Next]_vars

-----------------------------------------------------------------------------
(* Vocabulary of the properties *)

Terminated == pc \in {"done", "panicked"}

NumericChildren == {n \in DOMAIN fs : MatchAllProc(n)}

\* The fetch of child n has run: its stat file has been opened.
Fetched(n) == \E i \in 1..Len(io) : io[i] = ProcPath(n, "stat")

\* The places of the table that hold the entry of process n.
Rows(n) == {i \in 1..Len(table) : table[i].Pid = n}

\* The number of space-separated tokens of a record.
TokenCount(s) == Cardinality({i \in 1..Len(s) : CharAt(s, i) = " "}) + 1

\* The link /proc/<Pid>/fd/0 of a table entry, as the namespace has it.
LinkOf(e) ==
    IF e.Pid \in DOMAIN fs /\ fs[e.Pid].kind = "dir" THEN fs[e.Pid].fd0 ELSE NoFile

\* The well-formed records: the schema's number of single-space-separated
\* tokens and a command name without spaces, each with the tokens it was
\* printed from.
WellFormedRecords ==
    { [pid |-> n, cmd |-> c, ttypgrp |-> t, utime |-> u, stime |-> st,
       data |-> StatLine(NumStatFields, n, c, t, u, st)] :
        n \in {m \in AllNames : MatchAllProc(m)},
        c \in {"(sh)", "(a(b)c)", "()"},
        t \in TTYPgrpTexts, u \in UtimeTexts, st \in StimeTexts }

\* The well-formed record that child n's stat file holds, if it holds one.
WellFormedOf(n) ==
    {w \in WellFormedRecords :
        w.pid = n /\ fs[n].kind = "dir" /\ fs[n].stat = File(w.data)}

\* Token i of a well-formed record; the line's end belongs to the last one.
TokenOf(w, i) ==
    IF i = NumStatFields
    THEN StatToken(i, w.pid, w.cmd, w.ttypgrp, w.utime, w.stime) \o "\n"
    ELSE StatToken(i, w.pid, w.cmd, w.ttypgrp, w.utime, w.stime)

\* A command token without its outermost delimiters.
ShortName(cmd) ==
    CASE cmd = "(sh)" -> "sh"
      [] cmd = "(a(b)c)" -> "a(b)c"
      [] cmd = "()" -> ""

\* Every schema field but the command name holds its own token.
FieldsFromTokens(e, w) ==
    \A i \in (1..NumStatFields) \ {2} : e[FieldNames[i]] = TokenOf(w, i)

\* HH:MM:SS of a number of seconds, zero-padded, the hours in full.
TwoDigits(n) == IF n < 10 THEN "0" \o ToString(n) ELSE ToString(n)

HMS(s) ==
    TwoDigits(s \div 3600) \o ":" \o TwoDigits((s \div 60) % 60) \o ":"
        \o TwoDigits(s % 60)

TickTexts == UtimeTexts \cup StimeTexts

\* The number a tick text stands for when a text that is no integer of the
\* platform counts as 0.
TicksOrZero(t) ==
    CASE t = "0" -> 0 [] t = "50" -> 50 [] t = "150" -> 150 [] t = "359" -> 359
      [] t = "35900" -> 35900 [] t = "360000" -> 360000
      [] t = "36000000" -> 36000000 [] t = "2147483647" -> 2147483647
      [] OTHER -> 0

\* The same, with a decimal text too large for int (2^63 is, on every port)
\* counting as the largest int.
TicksClamped(t) ==
    IF t = "9223372036854775808" THEN MaxInt ELSE TicksOrZero(t)

-----------------------------------------------------------------------------
(* C1 *)

\* C1: when the fetch of one discovered numeric identifier fails, only that
\* identifier is excluded: every other numeric identifier whose fetch
\* succeeds is in the table exactly once, and LoadTable does not return the
\* fetch's error.  (Stated for a /proc whose children are all directories,
\* with the listing and the terminal-size query succeeding.)
C1_FetchFailureIsIsolated ==
    (/\ pc = "done"
     /\ rootOK /\ termOK
     /\ \A n \in DOMAIN fs : fs[n].kind = "dir"
     /\ \E n \in NumericChildren : Parse(n).outcome = "error")
    =>
    (/\ \A n \in NumericChildren :
            Parse(n).outcome = "ok" => Cardinality(Rows(n)) = 1
     /\ \A n \in NumericChildren :
            Parse(n).outcome = "error" => ret # Parse(n).e)

-----------------------------------------------------------------------------
(* C2 *)

\* C2: the fetch of a record with fewer tokens than the schema's field count
\* ends in an error: the walk stops with that error, no entry decoded from
\* the record is in the table, and the program has not panicked.
C2_ShortRecordIsAnError ==
    \A n \in NumericChildren :
        (/\ fs[n].kind = "dir" /\ fs[n].stat.ok
         /\ TokenCount(fs[n].stat.data) < NumStatFields
         /\ Fetched(n))
        =>
        (/\ pc # "panicked"
         /\ err \notin {Nil, SkipDir}
         /\ Rows(n) = {})

-----------------------------------------------------------------------------
(* C3 *)

\* C3: when the listing succeeds and every fetch succeeds, the table LoadTable
\* returns with holds exactly the numeric-named children of /proc, each once,
\* in listing order, whatever else /proc holds and wherever it falls in the
\* listing; nothing but the numeric-named children is fetched.
C3_TableIsTheNumericChildren ==
    (/\ pc = "done"
     /\ rootOK
     /\ \A n \in DOMAIN fs : fs[n].kind # "vanished"
     /\ \A n \in NumericChildren : Parse(n).outcome = "ok")
    =>
    (/\ [i \in 1..Len(table) |-> table[i].Pid] = SelectSeq(Listing, MatchAllProc)
     /\ \A i \in 1..Len(io) :
            \E n \in NumericChildren :
                io[i] \in {ProcPath(n, "stat"), ProcPath(n, "fd/0"),
                           ProcPath(n, "cmdline")})

-----------------------------------------------------------------------------
(* C4 *)

\* C4: a record whose command name has a space inside its delimiters,
\* "1 (my prog) S 104 ...", is decoded with the command name whole and every
\* later field taken from its own token.
C4_EmbeddedSpaceKeepsFields ==
    \A n \in NumericChildren : \A i \in Rows(n) :
        (/\ fs[n].kind = "dir"
         /\ fs[n].stat = File(StatLine(NumStatFields, n, "(my prog)", "34", "150", "50"))
         /\ ~flagsX)
        =>
        (/\ table[i].Cmd = "my prog"
         /\ table[i].State = "S"
         /\ table[i].Ppid = "104"
         /\ table[i].TTYPgrp = "34"
         /\ table[i].Utime = "150"
         /\ table[i].Stime = "50")

-----------------------------------------------------------------------------
(* C5 *)

\* C5, as claimed: the fetch of every well-formed record succeeds, with every
\* schema field holding its own token and the command name holding the
\* second token without its outermost delimiters.
C5_WellFormedDecodes_AsClaimed ==
    \A n \in NumericChildren : \A w \in WellFormedOf(n) :
        Fetched(n) =>
            /\ Cardinality(Rows(n)) = 1
            /\ \A i \in Rows(n) :
                /\ FieldsFromTokens(table[i], w)
                /\ table[i].Cmd = ShortName(w.cmd)

\* C5, amended: the fetch of every well-formed record succeeds unless the
\* long-command option is on and the argument vector cannot be read; when it
\* succeeds every schema field but the command name holds its own token, and
\* the command name holds the second token without its outermost delimiters
\* unless the long-command option is on and the argument vector is not
\* empty (it then holds the argument vector).
C5_WellFormedDecodes ==
    \A n \in NumericChildren : \A w \in WellFormedOf(n) :
        Fetched(n) =>
            IF flagsX /\ ~fs[n].cmdline.ok
            THEN Rows(n) = {}
            ELSE /\ Cardinality(Rows(n)) = 1
                 /\ \A i \in Rows(n) :
                     /\ FieldsFromTokens(table[i], w)
                     /\ table[i].Cmd =
                          IF flagsX /\ fs[n].cmdline.data # ""
                          THEN fs[n].cmdline.data
                          ELSE ShortName(w.cmd)

\* A well-formed record with delimiters inside its command name has been
\* decoded.
C5_Witness ==
    \E n \in NumericChildren : \E w \in WellFormedOf(n) : \E i \in Rows(n) :
        /\ w.cmd = "(a(b)c)"
        /\ table[i].Cmd = "a(b)c"
        /\ table[i].State = "S"
        /\ table[i].ExitCode = "152\n"

-----------------------------------------------------------------------------
(* C6 *)

\* C6, as claimed: with ticks the total tick count of an entry, format(0) is
\* "00:00:00", format(359) is "00:05:59", and format(360000) has an hours
\* component of at least 100 (three digits or more), not truncated.
C6_FormatOfTicks_AsClaimed ==
    \A i \in 1..Len(table) :
        LET e == table[i]
        IN /\ (e.Utime = "0" /\ e.Stime = "0") => e.Time = "00:00:00"
           /\ (e.Utime = "359" /\ e.Stime = "0") => e.Time = "00:05:59"
           /\ (e.Utime = "360000" /\ e.Stime = "0") => Len(e.Time) >= 9

\* C6, amended: the values are those of the whole seconds, ticks div 100: 0
\* ticks format as "00:00:00", 35900 ticks (359 s) as "00:05:59" and 36000000
\* ticks (360000 s) as "100:00:00", the hours in full; 359 ticks format as
\* "00:00:03" and 360000 ticks as "01:00:00".
C6_FormatOfTicks ==
    \A i \in 1..Len(table) :
        LET e == table[i]
        IN e.Stime = "0" =>
            /\ e.Utime = "0" => e.Time = "00:00:00"
            /\ e.Utime = "359" => e.Time = "00:00:03"
            /\ e.Utime = "35900" => e.Time = "00:05:59"
            /\ e.Utime = "360000" => e.Time = "01:00:00"
            /\ e.Utime = "36000000" => e.Time = "100:00:00"

\* An entry of 36000000 ticks has been decoded, its hours printed in full.
C6_Witness ==
    \E i \in 1..Len(table) :
        /\ table[i].Utime = "36000000"
        /\ table[i].Stime = "0"
        /\ table[i].Time = "100:00:00"

-----------------------------------------------------------------------------
(* C7 *)

-----------------------------------------------------------------------------
(* C8 *)

\* A link target with a leading "/dev/" removed once, the bare prefix giving
\* the empty remainder.
WithoutDevPrefix(t) ==
    CASE t = "/dev/pts/0" -> "pts/0"
      [] t = "/dev/x" -> "x"
      [] t = "/dev//dev/x" -> "/dev/x"
      [] t = "/dev/" -> ""
      [] OTHER -> t

\* The link never decides whether the fetch of a well-formed record succeeds.
LinkNeverFailsFetch ==
    \A n \in NumericChildren : \A w \in WellFormedOf(n) :
        (Fetched(n) /\ (flagsX => fs[n].cmdline.ok)) => Rows(n) # {}

\* C8, as claimed: Ctty is "?" when the standard-input link cannot be
\* resolved or the terminal-group id is "-1", and otherwise the link target
\* with a leading "/dev/" removed once ("/dev/" itself giving ""); the
\* resolution never fails the fetch.
C8_Ctty_AsClaimed ==
    /\ LinkNeverFailsFetch
    /\ \A i \in 1..Len(table) :
        LET e == table[i]
            l == LinkOf(e)
        IN IF ~l.ok \/ e.TTYPgrp = "-1"
           THEN e.Ctty = "?"
           ELSE e.Ctty = WithoutDevPrefix(l.data)

\* C8, amended: as claimed, except that the prefix is removed only from a
\* target longer than the prefix: a target that is exactly "/dev/" is
\* returned unchanged.
C8_Ctty ==
    /\ LinkNeverFailsFetch
    /\ \A i \in 1..Len(table) :
        LET e == table[i]
            l == LinkOf(e)
        IN IF ~l.ok \/ e.TTYPgrp = "-1"
           THEN e.Ctty = "?"
           ELSE e.Ctty = IF l.data = "/dev/" THEN "/dev/"
                         ELSE WithoutDevPrefix(l.data)

\* An entry whose standard input links to "/dev/" has been decoded.
C8_Witness ==
    \E i \in 1..Len(table) :
        /\ LinkOf(table[i]) = File("/dev/")
        /\ table[i].TTYPgrp = "34"
        /\ table[i].Ctty = "/dev/"

-----------------------------------------------------------------------------
(* C9 *)

\* C9: for the fetch of a readable, well-formed record.  With the
\* long-command option on: an unreadable argument vector makes the fetch
\* return the read error (the walk ends with it, LoadTable returns it, and
\* no entry is added), a non-empty one becomes the command name, an empty
\* one leaves the short name.  With the option off the argument vector is
\* never read and the entry carries the short name, whatever the argument
\* vector is.
C9_LongCommand ==
    \A n \in NumericChildren : \A w \in WellFormedOf(n) :
        Fetched(n) =>
            LET c == fs[n].cmdline
                read == \E i \in 1..Len(io) : io[i] = ProcPath(n, "cmdline")
            IN IF ~flagsX
               THEN /\ ~read
                    /\ Cardinality(Rows(n)) = 1
                    /\ \A i \in Rows(n) : table[i].Cmd = ShortName(w.cmd)
               ELSE IF ~c.ok
               THEN /\ read
                    /\ Rows(n) = {}
                    /\ pc # "panicked" => err = OpenError(n, "cmdline")
                    /\ pc = "done" => ret = OpenError(n, "cmdline")
               ELSE /\ read
                    /\ Cardinality(Rows(n)) = 1
                    /\ \A i \in Rows(n) :
                        table[i].Cmd = IF c.data # "" THEN c.data
                                       ELSE ShortName(w.cmd)

\* LoadTable has returned the read error of an argument vector.
C9_Witness ==
    \E n \in NumericChildren : \E w \in WellFormedOf(n) :
        /\ flagsX
        /\ ~fs[n].cmdline.ok
        /\ Fetched(n)
        /\ pc = "done"
        /\ ret = OpenError(n, "cmdline")
        /\ Rows(n) = {}

-----------------------------------------------------------------------------
(* C10 *)

\* C10: when the listing, every fetch and the terminal-size query succeed,
\* LoadTable ends by returning nil: it does not panic and it returns no
\* error, whether the walk ended with SkipDir or with no error at all.
C10_SuccessReturnsNil ==
    (/\ Terminated
     /\ rootOK /\ termOK
     /\ \A n \in DOMAIN fs : fs[n].kind # "vanished"
     /\ \A n \in NumericChildren : Parse(n).outcome = "ok")
    => (pc = "done" /\ ret = Nil)

=============================================================================
